---- MODULE Spec2Model ----
(***************************************************************************)
(* Model of the spreadsheet automation scripts: the Context sheet          *)
(* transformer (createContextJSON), the Epics row mapper (getRowData), the *)
(* payload assembler (createEpicsJSON), the trigger classifier             *)
(* (isExtractTodoSummariesTrigger), and the edit handlers with the script  *)
(* cache and the webhook (handleEdit, handleContextEdit, handleEpicsEdit,  *)
(* getContextData, sendToWebhook).                                         *)
(*                                                                         *)
(* JavaScript values are tagged records [t, v]: t is the type tag and v    *)
(* the payload (the text of a primitive, the entries of an object, the     *)
(* elements of an array).  An object is the sequence of its own enumerable *)
(* entries <<key, value>> in OwnPropertyKeys order.                        *)
(***************************************************************************)
EXTENDS Integers, Sequences, FiniteSets, TLC

\* A single call under study: the function, its argument and what it returned.
VARIABLES pc, fn, input, output

\* The spreadsheet at work: the Context sheet's values, the script cache, the
\* edit event last handled and what its handler did.
VARIABLES contextGrid, cache, lastEdit, lastRun

callVars == <<pc, fn, input, output>>

sheetVars == <<contextGrid, cache, lastEdit, lastRun>>

vars == <<pc, fn, input, output, contextGrid, cache, lastEdit, lastRun>>

\* No spreadsheet takes part in the call under study.
NoSheet ==
    /\ contextGrid = <<>>
    /\ cache = <<>>
    /\ lastEdit = <<>>
    /\ lastRun = <<>>

----------------------------------------------------------------------------
(* JavaScript values                                                       *)

Str(s) == [t |-> "string", v |-> s]

Num(s) == [t |-> "number", v |-> s]

Bool(s) == [t |-> "boolean", v |-> s]

Undefined == [t |-> "undefined", v |-> ""]

Null == [t |-> "null", v |-> ""]

Arr(elems) == [t |-> "array", v |-> elems]

Object(entries) == [t |-> "object", v |-> entries]

EmptyObject == Object(<<>>)

\* ToBoolean: "", 0, false, null and undefined are falsy.
Truthy(x) ==
    CASE x.t = "string" -> x.v # ""
      [] x.t = "number" -> x.v # "0"
      [] x.t = "boolean" -> x.v = "true"
      [] x.t \in {"undefined", "null"} -> FALSE
      [] OTHER -> TRUE

\* JavaScript's ToString, as applied to property keys and to the argument of JSON.parse.
ToStr(x) ==
    CASE x.t \in {"string", "number", "boolean"} -> x.v
      [] x.t = "null" -> "null"
      [] x.t = "undefined" -> "undefined"
      [] OTHER -> "[object Object]"

\* x instanceof Object
InstanceofObject(x) == x.t \in {"object", "array"}

\* The texts JSON.parse accepts, among those the model uses, and their values.
JSONLiterals ==
    ("0" :> Num("0")) @@ ("1" :> Num("1")) @@ ("42" :> Num("42")) @@
    ("true" :> Bool("true")) @@ ("false" :> Bool("false")) @@
    ("null" :> Null) @@
    ("{\"nestedKey\": \"nestedValue\"}" :>
        Object(<< <<"nestedKey", Str("nestedValue")>> >>))

\* Property names every plain object inherits from Object.prototype.
InheritedNames ==
    {"constructor", "__proto__", "toString", "valueOf", "hasOwnProperty",
     "isPrototypeOf", "propertyIsEnumerable", "toLocaleString"}

\* Canonical array-index keys, which OwnPropertyKeys lists first, ascending.
ArrayIndex == ("0" :> 0) @@ ("1" :> 1) @@ ("42" :> 42)

IsArrayIndex(k) == k \in DOMAIN ArrayIndex

----------------------------------------------------------------------------
(* Plain objects                                                           *)

ObjHas(o, k) == \E i \in 1..Len(o) : o[i][1] = k

ObjGet(o, k) == o[CHOOSE i \in 1..Len(o) : o[i][1] = k][2]

\* o[k] = x on own data properties: overwrite in place, or add the key in
\* OwnPropertyKeys order (array indices ascending, then insertion order).
ObjSet(o, k, x) ==
    IF ObjHas(o, k)
    THEN [i \in 1..Len(o) |-> IF o[i][1] = k THEN <<k, x>> ELSE o[i]]
    ELSE IF IsArrayIndex(k)
    THEN LET n == Cardinality({i \in 1..Len(o) :
                      /\ IsArrayIndex(o[i][1])
                      /\ ArrayIndex[o[i][1]] < ArrayIndex[k]})
         IN SubSeq(o, 1, n) \o << <<k, x>> >> \o SubSeq(o, n + 1, Len(o))
    ELSE Append(o, <<k, x>>)

ObjectValues(o) == [i \in 1..Len(o) |-> o[i][2]]

RECURSIVE FromEntriesFrom(_, _, _)
FromEntriesFrom(rows, i, acc) ==
    IF i > Len(rows) THEN acc
    ELSE FromEntriesFrom(rows, i + 1, ObjSet(acc, ToStr(rows[i][1]), rows[i][2]))

\* Object.fromEntries(rows): own data properties, later duplicates overwrite.
ObjectFromEntries(rows) == FromEntriesFrom(rows, 1, <<>>)

\* target[k] = x through [[Set]], as in an assignment or in Object.assign.
\* On a target without an own "__proto__" the inherited accessor's setter runs:
\* it ignores primitives, and null only clears the prototype; no own property
\* is created either way.
SetProp(target, k, x) ==
    IF k = "__proto__" /\ ~ObjHas(target, k) THEN target ELSE ObjSet(target, k, x)

RECURSIVE AssignFrom(_, _, _)
AssignFrom(target, source, i) ==
    IF i > Len(source) THEN target
    ELSE AssignFrom(SetProp(target, source[i][1], source[i][2]), source, i + 1)

ObjectAssign(target, source) == AssignFrom(target, source, 1)

----------------------------------------------------------------------------
(* context.js: createContextJSON                                           *)

\* The header row of the Context sheet (context.js:49).
HeaderRow ==
    Arr(<<Str("Header A"), Str("Header B"), Str("Header C"), Str("Header D"),
          Str("Header E"), Str("Header F"), Str("Header G")>>)

\* Array element read: a[i] (0-based), undefined past the end.
At(a, i) == IF i + 1 <= Len(a) THEN a[i + 1] ELSE Undefined

\* Mutant of Slice1: the header row is not skipped.
Slice1_KeepsHeader(a) == a

\* data.slice(1)
Slice1(a) == SubSeq(a, 2, Len(a))

\* The row filter: key && value !== undefined && value !== ''
RowKept(key, value) == Truthy(key) /\ value # Undefined /\ value # Str("")

\* if (!grouped[collection]) grouped[collection] = []; grouped[collection].push(..)
\* grouped is a plain {}: a name inherited from Object.prototype reads as a
\* truthy non-array, and .push on it is a TypeError.
GroupedPushThrows(grouped, name) == ~ObjHas(grouped, name) /\ name \in InheritedNames

GroupedPush(grouped, name, pair) ==
    IF ObjHas(grouped, name)
    THEN ObjSet(grouped, name, Append(ObjGet(grouped, name), pair))
    ELSE ObjSet(grouped, name, <<pair>>)

\* data.slice(1).forEach(row => ...): the state after the rows from i on.
RECURSIVE ScanRows(_, _, _, _)
ScanRows(rows, i, grouped, nonCollectionRows) ==
    IF i > Len(rows)
    THEN [threw |-> FALSE, grouped |-> grouped, nonCollectionRows |-> nonCollectionRows]
    ELSE IF rows[i].t # "array"
    THEN [threw |-> TRUE, grouped |-> grouped, nonCollectionRows |-> nonCollectionRows]
    ELSE LET collection == At(rows[i].v, 0)
             key == At(rows[i].v, 3)
             value == At(rows[i].v, 6)
         IN IF ~RowKept(key, value)
            THEN ScanRows(rows, i + 1, grouped, nonCollectionRows)
            ELSE IF ~Truthy(collection)
            THEN ScanRows(rows, i + 1, grouped, Append(nonCollectionRows, <<key, value>>))
            ELSE IF GroupedPushThrows(grouped, ToStr(collection))
            THEN [threw |-> TRUE, grouped |-> grouped,
                  nonCollectionRows |-> nonCollectionRows]
            ELSE ScanRows(rows, i + 1,
                          GroupedPush(grouped, ToStr(collection), <<key, value>>),
                          nonCollectionRows)

\* Object.entries(grouped).forEach(([collection, rows]) =>
\*     result[collection] = Object.fromEntries(rows))
RECURSIVE ProcessGrouped(_, _, _)
ProcessGrouped(grouped, i, result) ==
    IF i > Len(grouped) THEN result
    ELSE ProcessGrouped(grouped, i + 1,
             SetProp(result, grouped[i][1], Object(ObjectFromEntries(grouped[i][2]))))

\* Object.assign(result, Object.fromEntries(nonCollectionRows))
MergeNonCollection(result, nonCollectionRows) ==
    ObjectAssign(result, ObjectFromEntries(nonCollectionRows))

\* Object.values(result).flatMap(obj =>
\*     obj instanceof Object ? Object.values(obj) : [obj])
RECURSIVE FlatValues(_, _)
FlatValues(result, i) ==
    IF i > Len(result) THEN <<>>
    ELSE (IF InstanceofObject(result[i][2])
          THEN ObjectValues(result[i][2].v)
          ELSE <<result[i][2]>>) \o FlatValues(result, i + 1)

\* parseValue / the callback of batchParseValues:
\* try { return JSON.parse(value) } catch (e) { return value }
parseValue(value) ==
    IF ToStr(value) \in DOMAIN JSONLiterals THEN JSONLiterals[ToStr(value)] ELSE value

batchParseValues(values) == [i \in 1..Len(values) |-> parseValue(values[i])]

\* Object.keys(result[key]).forEach(subKey =>
\*     result[key][subKey] = parsedValues[index++])
AssignSubKeys(obj, parsedValues, index) ==
    [i \in 1..Len(obj) |-> <<obj[i][1], At(parsedValues, index + i - 1)>>]

\* Mutant of AssignParsed: index is incremented before the read, not after.
RECURSIVE AssignParsed_PreIncrement(_, _, _, _)
AssignParsed_PreIncrement(result, parsedValues, i, index) ==
    IF i > Len(result) THEN result
    ELSE IF InstanceofObject(result[i][2])
    THEN AssignParsed_PreIncrement(
             [result EXCEPT ![i] =
                 <<result[i][1],
                   Object(AssignSubKeys(result[i][2].v, parsedValues, index + 1))>>],
             parsedValues, i + 1, index + Len(result[i][2].v))
    ELSE AssignParsed_PreIncrement(
             [result EXCEPT ![i] = <<result[i][1], At(parsedValues, index + 1)>>],
             parsedValues, i + 1, index + 1)

\* The write-back loop over Object.keys(result), index counting the leaves.
RECURSIVE AssignParsed(_, _, _, _)
AssignParsed(result, parsedValues, i, index) ==
    IF i > Len(result) THEN result
    ELSE IF InstanceofObject(result[i][2])
    THEN AssignParsed(
             [result EXCEPT ![i] =
                 <<result[i][1],
                   Object(AssignSubKeys(result[i][2].v, parsedValues, index))>>],
             parsedValues, i + 1, index + Len(result[i][2].v))
    ELSE AssignParsed(
             [result EXCEPT ![i] = <<result[i][1], At(parsedValues, index)>>],
             parsedValues, i + 1, index + 1)

\* The try block of createContextJSON: the tree, or a thrown TypeError.
ContextBody(data) ==
    IF data.t # "array"
    THEN [threw |-> TRUE, value |-> Undefined]
    ELSE LET scan == ScanRows(Slice1(data.v), 1, <<>>, <<>>)
         IN IF scan.threw
            THEN [threw |-> TRUE, value |-> Undefined]
            ELSE LET result == MergeNonCollection(
                                   ProcessGrouped(scan.grouped, 1, <<>>),
                                   scan.nonCollectionRows)
                     parsedValues == batchParseValues(FlatValues(result, 1))
                 IN [threw |-> FALSE,
                     value |-> Object(AssignParsed(result, parsedValues, 1, 0))]

\* Mutant of ContextCatch: the error is passed on to the caller.
ContextCatch_Rethrows(body) == body

\* catch (error) { Logger.log(...); return {}; }
ContextCatch(body) == IF body.threw THEN [threw |-> FALSE, value |-> EmptyObject] ELSE body

createContextJSON(data) == ContextCatch(ContextBody(data))

----------------------------------------------------------------------------
(* Epics module: getRowData, createEpicsJSON, isExtractTodoSummariesTrigger *)

\* Mutant of ReduceHeaders: the row is read one position too far.
RECURSIVE ReduceHeaders_OffByOne(_, _, _, _)
ReduceHeaders_OffByOne(headers, row, i, obj) ==
    IF i > Len(headers) THEN [threw |-> FALSE, value |-> Object(obj)]
    ELSE IF row.t \in {"null", "undefined"}
    THEN [threw |-> TRUE, value |-> Undefined]
    ELSE ReduceHeaders_OffByOne(headers, row, i + 1,
             SetProp(obj, ToStr(headers[i]), At(row.v, i)))

\* headers.reduce((obj, header, index) => { obj[header] = row[index]; ... }, {})
\* from position i on; row[index] on null or undefined is a TypeError.
RECURSIVE ReduceHeaders(_, _, _, _)
ReduceHeaders(headers, row, i, obj) ==
    IF i > Len(headers) THEN [threw |-> FALSE, value |-> Object(obj)]
    ELSE IF row.t \in {"null", "undefined"}
    THEN [threw |-> TRUE, value |-> Undefined]
    ELSE ReduceHeaders(headers, row, i + 1,
             SetProp(obj, ToStr(headers[i]), At(row.v, i - 1)))

\* getRowData: the reduce, and {} when it throws.
getRowData(headers, row) ==
    LET body == IF headers.t # "array"
                THEN [threw |-> TRUE, value |-> Undefined]
                ELSE ReduceHeaders(headers.v, row, 1, <<>>)
    IN IF body.threw THEN [threw |-> FALSE, value |-> EmptyObject] ELSE body

\* Mutant of EventDataKept: a truthiness test, which drops 0 and false.
EventDataKept_Truthy(value) == Truthy(value)

\* value !== null && value !== undefined && value !== ''
EventDataKept(value) == value # Null /\ value # Undefined /\ value # Str("")

\* for (const [key, value] of Object.entries(data)) if (...) json.eventData[key] = value
RECURSIVE CopyEventData(_, _, _)
CopyEventData(data, i, eventData) ==
    IF i > Len(data) THEN eventData
    ELSE CopyEventData(data, i + 1,
             IF EventDataKept(data[i][2])
             THEN SetProp(eventData, data[i][1], data[i][2])
             ELSE eventData)

\* An edit event: e.source.getId(), the active sheet's name, e.range.getRow().
Event(id, sheetName, row) ==
    [t |-> "event", v |-> [id |-> Str(id), sheetName |-> Str(sheetName), row |-> Num(row)]]

\* Mutant of EventFields: the metadata fields are added without an event too.
EventFields_Always(json, e, env) ==
    json \o << <<"gsheet_id", Str("")>>, <<"sheet_name_id", Str("")>>,
               <<"row_id", Num("0")>>, <<"user_id", env.email>>,
               <<"modify_time", env.now>> >>

\* if (e) { json.gsheet_id = e.source.getId(); ... json.modify_time = ... }
EventFields(json, e, env) ==
    IF Truthy(e)
    THEN json \o << <<"gsheet_id", e.v.id>>, <<"sheet_name_id", e.v.sheetName>>,
                    <<"row_id", e.v.row>>, <<"user_id", env.email>>,
                    <<"modify_time", env.now>> >>
    ELSE json

\* The try block of createEpicsJSON(data, contextData, e = null); env is what
\* Session and Date answer.  Object.entries of null or undefined throws.
EpicsBody(data, contextData, e, env) ==
    LET json == EventFields(<< <<"context", contextData>>,
                               <<"eventData", EmptyObject>> >>,
                            IF e.t = "undefined" THEN Null ELSE e, env)
    IN IF data.t \in {"null", "undefined"}
       THEN [threw |-> TRUE, value |-> Undefined]
       ELSE [threw |-> FALSE,
             value |-> Object(ObjSet(json, "eventData",
                                     Object(CopyEventData(data.v, 1, <<>>))))]

\* createEpicsJSON: the body, and {} when it throws.
createEpicsJSON(data, contextData, e, env) ==
    LET body == EpicsBody(data, contextData, e, env)
    IN IF body.threw THEN [threw |-> FALSE, value |-> EmptyObject] ELSE body

\* The column and the cell value that start the Epics pipeline.
TriggerColumn == 10

TriggerValue == Str("Groom EPIC")

\* Mutant of isExtractTodoSummariesTrigger: the column is not looked at.
isExtractTodoSummariesTrigger_AnyColumn(range) == range.value = TriggerValue

\* range.getColumn() === 10 && range.getValue() === "Groom EPIC"
isExtractTodoSummariesTrigger(range) ==
    range.column = TriggerColumn /\ range.value = TriggerValue

----------------------------------------------------------------------------
(* JSON text and the script cache                                          *)

\* A Date cell, as getValues() hands it over; v is what toJSON answers.
DateCell == [t |-> "date", v |-> "2024-05-01T00:00:00.000Z"]

\* What JSON.stringify writes for x: a property whose value is undefined is
\* left out, undefined in an array is written as null, and a Date is written
\* as its toJSON string.
RECURSIVE JSONValue(_)
JSONValue(x) ==
    CASE x.t = "object" ->
           LET kept == SelectSeq(x.v, LAMBDA p : p[2] # Undefined)
           IN Object([i \in 1..Len(kept) |-> <<kept[i][1], JSONValue(kept[i][2])>>])
      [] x.t = "array" ->
           Arr([i \in 1..Len(x.v) |->
                   IF x.v[i] = Undefined THEN Null ELSE JSONValue(x.v[i])])
      [] x.t = "date" -> Str(x.v)
      [] OTHER -> x

\* JSON.stringify(x): the text, held as the syntax tree it spells out.
JSONStringify(x) == [t |-> "text", v |-> JSONValue(x)]

\* JSON.parse(text): the value the text spells out.
JSONParse(text) == text.v

\* spreadsheet.getId()
SpreadsheetId == "sheet-1"

\* contextSheet.getLastRow(): the sheet's rows down to the last one with content.
getLastRow(grid) == Len(grid.v)

\* `contextData_${spreadsheet.getId()}_${lastRow}`
getCacheKey(grid) ==
    "contextData_" \o SpreadsheetId \o "_" \o ToString(getLastRow(grid))

\* CacheService.getScriptCache().get(key): the text, or null when there is none.
CacheGet(c, key) == IF key \in DOMAIN c THEN c[key] ELSE Null

\* CacheService.getScriptCache().put(key, text)
CachePut(c, key, text) == (key :> text) @@ c

\* Mutant of handleContextEdit: the rebuilt tree is not stored.
handleContextEdit_NoPut(grid, c) == c

\* handleContextEdit: the script cache after
\* put(getCacheKey(e.source), JSON.stringify(createContextJSON(getSheetData("Context"))))
handleContextEdit(grid, c) ==
    CachePut(c, getCacheKey(grid), JSONStringify(createContextJSON(grid).value))

\* getContextData: the key read, whether the cache answered, the context
\* returned, and the script cache afterwards.
getContextData(grid, c) ==
    LET cacheKey == getCacheKey(grid)
        contextData == CacheGet(c, cacheKey)
    IN IF ~Truthy(contextData)
       THEN LET rebuilt == createContextJSON(grid).value
            IN [key |-> cacheKey, hit |-> FALSE, value |-> rebuilt,
                cache |-> CachePut(c, cacheKey, JSONStringify(rebuilt))]
       ELSE [key |-> cacheKey, hit |-> TRUE, value |-> JSONParse(contextData),
             cache |-> c]

----------------------------------------------------------------------------
(* Edit handlers and the webhook                                           *)

\* CONFIG.WEBHOOKS as shipped.
WEBHOOKS ==
    << <<"GROOM_EPICS", Str("https://hook.eu2.make.com/rl83vjk9x0iad1avisatjk9rok27wgpy")>>,
       <<"GROOM_USER_STORIES_AND_TASKS", Str("")>>,
       <<"GROOM_SUBTASKS", Str("")>>,
       <<"ESTIMATE_SUBTASKS", Str("")>> >>

\* getWebhookUrl(operation): CONFIG.WEBHOOKS[operation] || null
getWebhookUrl(webhooks, operation) ==
    LET url == IF ObjHas(webhooks, operation) THEN ObjGet(webhooks, operation)
               ELSE Undefined
    IN IF Truthy(url) THEN url ELSE Null

\* The one response status sendToWebhook accepts.
HttpOk == 200

\* The try block of sendToWebhook; status is what the endpoint answers.  The
\* request goes out only with a URL, and any status but 200 ends in a throw,
\* by UrlFetchApp.fetch itself or by the check of getResponseCode().
SendBody(json, webhooks, status) ==
    LET webhookUrl == getWebhookUrl(webhooks, "GROOM_EPICS")
    IN IF ~Truthy(webhookUrl)
       THEN [threw |-> TRUE, posts |-> <<>>]
       ELSE [threw |-> status # HttpOk,
             posts |-> << [url |-> webhookUrl, payload |-> JSONStringify(json)] >>]

\* sendToWebhook: the body, whose throw the catch logs and swallows.
sendToWebhook(json, webhooks, status) ==
    LET body == SendBody(json, webhooks, status)
    IN [threw |-> FALSE, failed |-> body.threw, posts |-> body.posts]

\* What one run of handleEdit did: the requests posted, the call of
\* sendToWebhook and its outcome (status 0: no request, no response), and the
\* read of the context.
NoRun ==
    [posts |-> <<>>, sendCalled |-> FALSE, sendFailed |-> FALSE,
     sendThrew |-> FALSE, status |-> 0, contextRead |-> FALSE, key |-> "",
     hit |-> FALSE, context |-> Undefined]

\* The Epics sheet's header row and the edited row, TriggerColumn cells each.
EpicsHeaders ==
    Arr([i \in 1..TriggerColumn |->
            IF i = 1 THEN Str("Epic") ELSE IF i = TriggerColumn THEN Str("Action")
            ELSE Str("")])

EpicsRow(e) ==
    Arr([i \in 1..TriggerColumn |->
            IF i = e.column THEN e.value ELSE IF i = 1 THEN Str("Checkout")
            ELSE Str("")])

\* getEventRowData(sheet, range)
getEventRowData(e) == getRowData(EpicsHeaders, EpicsRow(e)).value

\* handleEpicsEdit(e): the run and the script cache afterwards.
handleEpicsEdit(e, grid, c, webhooks, status, env) ==
    IF isExtractTodoSummariesTrigger([column |-> e.column, value |-> e.value])
    THEN LET rowData == getEventRowData(e)
             contextData == getContextData(grid, c)
             json == createEpicsJSON(rowData, contextData.value,
                                     Event(SpreadsheetId, e.sheetName, ToString(e.row)),
                                     env).value
             sent == sendToWebhook(json, webhooks, status)
         IN [cache |-> contextData.cache,
             run |-> [posts |-> sent.posts, sendCalled |-> TRUE,
                      sendFailed |-> sent.failed, sendThrew |-> sent.threw,
                      status |-> IF sent.posts = <<>> THEN 0 ELSE status,
                      contextRead |-> TRUE, key |-> contextData.key,
                      hit |-> contextData.hit, context |-> contextData.value]]
    ELSE [cache |-> c, run |-> NoRun]

\* Mutant of handleEdit: every sheet but Context is handled as Epics.
handleEdit_AnySheetIsEpics(e, grid, c, webhooks, status, env) ==
    IF e.sheetName = "Context"
    THEN [cache |-> handleContextEdit(grid, c), run |-> NoRun]
    ELSE handleEpicsEdit(e, grid, c, webhooks, status, env)

\* handleEdit(e): routes on the active sheet's name.
handleEdit(e, grid, c, webhooks, status, env) ==
    IF e.sheetName = "Context"
    THEN [cache |-> handleContextEdit(grid, c), run |-> NoRun]
    ELSE IF e.sheetName = "Epics"
    THEN handleEpicsEdit(e, grid, c, webhooks, status, env)
    ELSE [cache |-> c, run |-> NoRun]

----------------------------------------------------------------------------
(* Inputs of createContextJSON                                             *)

\* Data rows per grid.
MaxRows == 2

\* Column A cells: no collection, a collection, a falsy number, an inherited name.
CollectionCells == {Str(""), Str("C1"), Num("0"), Str("constructor")}

\* Column D cells.
KeyCells == {Str(""), Str("K1"), Str("C1"), Num("0"), Str("constructor"),
             Str("__proto__")}

\* Column G cells.
ValueCells == {Str(""), Str("V1"), Str("42"), Num("0")}

GridRow(a, d, g) == Arr(<<a, Str(""), Str(""), d, Str(""), Str(""), g>>)

\* Seven-cell rows, a row cut short after column D, and a row that is no array.
RowSet ==
    {GridRow(a, d, g) : a \in CollectionCells, d \in KeyCells, g \in ValueCells}
    \cup {Arr(<<Str("C1"), Str(""), Str(""), Str("K1")>>), Null}

\* data is null, undefined, or the header row followed by up to MaxRows rows.
IsContextInput(data) ==
    \/ data \in {Null, Undefined}
    \/ \E n \in 0..MaxRows : \E rows \in [1..n -> RowSet] :
           data = Arr(<<HeaderRow>> \o rows)

InitContext ==
    /\ pc = "call"
    /\ fn = "createContextJSON"
    /\ IsContextInput(input)
    /\ output = [threw |-> FALSE, value |-> Undefined]
    /\ NoSheet

CallCreateContextJSON ==
    /\ pc = "call"
    /\ fn = "createContextJSON"
    /\ output' = createContextJSON(input)
    /\ pc' = "done"
    /\ UNCHANGED <<fn, input>>
    /\ UNCHANGED sheetVars

NextContext == CallCreateContextJSON

SpecContext == InitContext /\ [][NextContext]_vars

----------------------------------------------------------------------------
(* Inputs of getRowData and createEpicsJSON                                *)

\* Headers per sheet; rows hold up to one value more.
MaxCols == 2

\* Fields per row object.
MaxFields == 3

HeaderCells == {Str("A"), Str("B"), Str(""), Str("__proto__")}

RowCells == {Str("x"), Str("y"), Str(""), Num("0")}

FieldNames == <<"A", "B", "C", "D", "E">>

\* A field the row object does not have.
Absent == [t |-> "absent", v |-> ""]

FieldCells == {Absent, Str("x"), Str(""), Num("0"), Bool("false"), Null, Undefined}

\* The row object with field FieldNames[i] = f[i] for every i where f[i] is set.
RowObject(f) ==
    Object(SelectSeq([i \in DOMAIN f |-> <<FieldNames[i], f[i]>>],
                     LAMBDA p : p[2] # Absent))

ContextTrees ==
    {EmptyObject,
     Object(<< <<"C1", Object(<< <<"K1", Str("V1")>> >>)>>, <<"K3", Num("42")>> >>)}

\* The event is left out, null, or an edit event.
Events == {Undefined, Null, Event("sheet-1", "Epics", "2"), Event("sheet-2", "Context", "7")}

Env == [email |-> Str("user@example.com"), now |-> Str("2024-05-01T10:00:00.000Z")]

IsRowDataInput(in) ==
    \E n \in 0..MaxCols : \E h \in [1..n -> HeaderCells] :
        \/ \E m \in 0..(MaxCols + 1) : \E r \in [1..m -> RowCells] :
               in = [headers |-> Arr(h), row |-> Arr(r)]
        \/ in = [headers |-> Arr(h), row |-> Null]
        \/ n = 0 /\ in = [headers |-> Null, row |-> Arr(<<>>)]

IsEpicsInput(in) ==
    \E contextData \in ContextTrees : \E e \in Events :
        \/ \E f \in [1..MaxFields -> FieldCells] :
               in = [data |-> RowObject(f), contextData |-> contextData,
                     e |-> e, env |-> Env]
        \/ in = [data |-> Null, contextData |-> contextData, e |-> e, env |-> Env]

InitEpics ==
    /\ pc = "call"
    /\ \/ fn = "getRowData" /\ IsRowDataInput(input)
       \/ fn = "createEpicsJSON" /\ IsEpicsInput(input)
    /\ output = [threw |-> FALSE, value |-> Undefined]
    /\ NoSheet

CallGetRowData ==
    /\ pc = "call"
    /\ fn = "getRowData"
    /\ output' = getRowData(input.headers, input.row)
    /\ pc' = "done"
    /\ UNCHANGED <<fn, input>>
    /\ UNCHANGED sheetVars

CallCreateEpicsJSON ==
    /\ pc = "call"
    /\ fn = "createEpicsJSON"
    /\ output' = createEpicsJSON(input.data, input.contextData, input.e, input.env)
    /\ pc' = "done"
    /\ UNCHANGED <<fn, input>>
    /\ UNCHANGED sheetVars

NextEpics == CallGetRowData \/ CallCreateEpicsJSON

SpecEpics == InitEpics /\ [][NextEpics]_vars

----------------------------------------------------------------------------
(* Inputs of isExtractTodoSummariesTrigger                                 *)

\* Columns of the Epics sheet.
MaxColumn == 12

TriggerCells ==
    {Str("Groom EPIC"), Str("groom epic"), Str("GROOM EPIC"), Str("Groom"),
     Str("Groom EPIC "), Str("Groom EPICS"), Str("Extract ToDo Summaries"),
     Str(""), Num("10"), Bool("true")}

InitTrigger ==
    /\ pc = "call"
    /\ fn = "isExtractTodoSummariesTrigger"
    /\ input \in [column : 1..MaxColumn, value : TriggerCells]
    /\ output = [threw |-> FALSE, value |-> Undefined]
    /\ NoSheet

CallIsExtractTodoSummariesTrigger ==
    /\ pc = "call"
    /\ fn = "isExtractTodoSummariesTrigger"
    /\ output' = [threw |-> FALSE,
                  value |-> IF isExtractTodoSummariesTrigger(input)
                            THEN Bool("true") ELSE Bool("false")]
    /\ pc' = "done"
    /\ UNCHANGED <<fn, input>>
    /\ UNCHANGED sheetVars

NextTrigger == CallIsExtractTodoSummariesTrigger

SpecTrigger == InitTrigger /\ [][NextTrigger]_vars

----------------------------------------------------------------------------
(* The spreadsheet under edits: handleEdit, cache expiry                   *)

\* Data rows of the Context sheet.
MaxSheetRows == 1

\* Rows a user leaves in the Context sheet: a flat entry, a collection entry
\* with a number in text, the flat entry with a date, a second collection entry.
EditRows ==
    {GridRow(Str(""), Str("K1"), Str("V1")),
     GridRow(Str("C1"), Str("K1"), Str("42")),
     GridRow(Str(""), Str("K1"), DateCell),
     GridRow(Str("C1"), Str("K2"), Str("true"))}

\* The Context sheet's values: the header row and up to MaxSheetRows rows.
IsContextGrid(grid) ==
    \E n \in 0..MaxSheetRows : \E rows \in [1..n -> EditRows] :
        grid = Arr(<<HeaderRow>> \o rows)

\* The Context sheet after one change: a row typed under the last one, the
\* last row cleared, or a row typed over.
ContextChanges(old) ==
    ({Arr(Append(old.v, r)) : r \in IF Len(old.v) <= MaxSheetRows THEN EditRows ELSE {}}
     \cup {Arr(SubSeq(old.v, 1, Len(old.v) - 1)) : i \in 2..Len(old.v)}
     \cup {Arr([old.v EXCEPT ![i] = r]) : i \in 2..Len(old.v), r \in EditRows})
    \ {old}

\* CONFIG.WEBHOOKS as shipped, and with the GROOM_EPICS URL left empty.
Configs == {WEBHOOKS, ObjSet(WEBHOOKS, "GROOM_EPICS", Str(""))}

\* Response statuses of the endpoint.
Statuses == {200, 201, 404}

SentinelCells == {TriggerValue, Str("groom epic")}

SentinelColumns == {TriggerColumn - 1, TriggerColumn}

NoEdit == [sheetName |-> "", column |-> 0, row |-> 0, value |-> Undefined]

InitEdit ==
    /\ pc = "idle"
    /\ fn = "handleEdit"
    /\ input = Undefined
    /\ output = [threw |-> FALSE, value |-> Undefined]
    /\ IsContextGrid(contextGrid)
    /\ cache = <<>>
    /\ lastEdit = NoEdit
    /\ lastRun = NoRun

\* A user changes the Context sheet in columns A to G; the edit trigger runs
\* handleEdit on the sheet as it then stands.
EditContext ==
    \E grid \in ContextChanges(contextGrid) :
        \E webhooks \in Configs : \E status \in Statuses :
            LET e == [sheetName |-> "Context", column |-> 1,
                      row |-> Len(grid.v), value |-> Str("")]
                done == handleEdit(e, grid, cache, webhooks, status, Env)
            IN /\ contextGrid' = grid
               /\ cache' = done.cache
               /\ lastEdit' = e
               /\ lastRun' = done.run
               /\ UNCHANGED callVars

\* A user types into the Epics sheet, in the trigger column or next to it.
EditEpics ==
    \E column \in SentinelColumns : \E value \in SentinelCells :
        \E webhooks \in Configs : \E status \in Statuses :
            LET e == [sheetName |-> "Epics", column |-> column, row |-> 2,
                      value |-> value]
                done == handleEdit(e, contextGrid, cache, webhooks, status, Env)
            IN /\ cache' = done.cache
               /\ lastEdit' = e
               /\ lastRun' = done.run
               /\ UNCHANGED contextGrid
               /\ UNCHANGED callVars

\* A user types into another sheet, or into the Context sheet right of column G.
EditElsewhere ==
    \E sheetName \in {"Context", "Team"} :
        \E column \in SentinelColumns : \E value \in SentinelCells :
            \E webhooks \in Configs : \E status \in Statuses :
                LET e == [sheetName |-> sheetName, column |-> column, row |-> 1,
                          value |-> value]
                    done == handleEdit(e, contextGrid, cache, webhooks, status, Env)
                IN /\ cache' = done.cache
                   /\ lastEdit' = e
                   /\ lastRun' = done.run
                   /\ UNCHANGED contextGrid
                   /\ UNCHANGED callVars

\* The script cache drops an entry: its time is up, or the store evicts it.
Expire ==
    \E key \in DOMAIN cache :
        /\ cache' = [k \in DOMAIN cache \ {key} |-> cache[k]]
        /\ UNCHANGED <<contextGrid, lastEdit, lastRun>>
        /\ UNCHANGED callVars

NextEdit == EditContext \/ EditEpics \/ EditElsewhere \/ Expire

SpecEdit == InitEdit /\ [][NextEdit]_vars

----------------------------------------------------------------------------
(* What the Context tree should hold, stated over the grid alone           *)

\* The spec's emptiness: undefined, null or the empty string.
Empty(x) == x \in {Undefined, Null, Str("")}

\* A grid of the data model: an array whose rows are arrays.
ProperGrid(data) ==
    data.t = "array" /\ \A i \in 1..Len(data.v) : data.v[i].t = "array"

DataRowIdx(data) == 2..Len(data.v)

CellA(data, i) == At(data.v[i].v, 0)

CellD(data, i) == At(data.v[i].v, 3)

CellG(data, i) == At(data.v[i].v, 6)

\* Rows the transformer keeps: truthy entry key, value neither undefined nor "".
Kept(data) ==
    {i \in DataRowIdx(data) :
        /\ Truthy(CellD(data, i))
        /\ CellG(data, i) \notin {Undefined, Str("")}}

\* Kept rows filed at the top level (falsy collection key).
FlatRows(data) == {i \in Kept(data) : ~Truthy(CellA(data, i))}

\* Kept rows filed under a collection (truthy collection key).
GroupedRows(data) == {i \in Kept(data) : Truthy(CellA(data, i))}

\* The rows of S filed under collection c.
InCollection(data, S, c) == {i \in S : ToStr(CellA(data, i)) = c}

CollNames(data) == {ToStr(CellA(data, i)) : i \in GroupedRows(data)}

EntryKeys(data, S) == {ToStr(CellD(data, i)) : i \in S}

\* Top-level keys the flat rows create: "__proto__" is swallowed by the setter.
FlatKeys(data) == EntryKeys(data, FlatRows(data)) \ {"__proto__"}

\* The last row of S with entry key k.
LastWith(data, S, k) ==
    CHOOSE i \in S :
        /\ ToStr(CellD(data, i)) = k
        /\ \A j \in S : ToStr(CellD(data, j)) = k => j <= i

\* The leaf a cell value should become: its JSON value, else itself.
Coerced(x) == IF ToStr(x) \in DOMAIN JSONLiterals THEN JSONLiterals[ToStr(x)] ELSE x

\* The grids on which the body of createContextJSON throws: a row that is no
\* array, or a kept row filed under a name inherited from Object.prototype.
FailsInternally(data) ==
    \/ ~ProperGrid(data)
    \/ \E c \in CollNames(data) : c \in InheritedNames

KeySet(o) == {o[i][1] : i \in 1..Len(o)}

ContextDone == pc = "done" /\ fn = "createContextJSON"

tree == output.value.v

\* The place of row i is its own: no other data row has its entry key, names a
\* collection after it, or has its collection's name as entry key.
PlaceUnique(data, i) ==
    \A j \in DataRowIdx(data) \ {i} :
        /\ ToStr(CellD(data, j)) # ToStr(CellD(data, i))
        /\ ToStr(CellA(data, j)) # ToStr(CellD(data, i))
        /\ ToStr(CellD(data, j)) # ToStr(CellA(data, i))

\* The tree holds an entry for row i: under its collection, or at the top level.
HasEntryOf(data, i) ==
    LET c == ToStr(CellA(data, i))
        k == ToStr(CellD(data, i))
    IN \/ /\ ~Empty(CellA(data, i))
          /\ ObjHas(tree, c)
          /\ ObjGet(tree, c).t = "object"
          /\ ObjHas(ObjGet(tree, c).v, k)
       \/ /\ ~Truthy(CellA(data, i))
          /\ ObjHas(tree, k)

\* No collection key or entry key of the grid is a name inherited from
\* Object.prototype.
PlainNames(data) ==
    \A i \in DataRowIdx(data) :
        /\ ToStr(CellA(data, i)) \notin InheritedNames
        /\ ToStr(CellD(data, i)) \notin InheritedNames

(* C1: a data row contributes an entry to the tree if and only if its entry *)
(* key and its entry value are both non-empty (undefined, null and "" are   *)
(* the empty values; 0 and false are not), whatever its collection key.     *)
(* Stated for grids of plain names and for the rows whose place in the tree *)
(* no other row touches.                                                    *)
C1_RowKeptIffKeyAndValueNonEmpty ==
    (ContextDone /\ ProperGrid(input) /\ PlainNames(input)) =>
        \A i \in DataRowIdx(input) :
            PlaceUnique(input, i) =>
                (HasEntryOf(input, i) <=>
                    (~Empty(CellD(input, i)) /\ ~Empty(CellG(input, i))))

\* The object the rows of S should build: one entry per entry key, holding the
\* coerced value of the last row of S with that key.
HoldsLastOf(obj, data, S) ==
    /\ KeySet(obj) = EntryKeys(data, S)
    /\ \A k \in EntryKeys(data, S) :
           ObjGet(obj, k) = Coerced(CellG(data, LastWith(data, S, k)))

C3_FlatEntryOverridesCollection ==
    (ContextDone /\ ProperGrid(input)) =>
        \A i \in Kept(input) :
            (/\ Empty(CellA(input, i))
             /\ \E j \in DataRowIdx(input) :
                    /\ ~Empty(CellA(input, j))
                    /\ ToStr(CellA(input, j)) = ToStr(CellD(input, i)))
            => LET k == ToStr(CellD(input, i))
                   S == {j \in Kept(input) :
                            Empty(CellA(input, j)) /\ ToStr(CellD(input, j)) = k}
               IN /\ ObjHas(tree, k)
                  /\ ObjGet(tree, k) = Coerced(CellG(input, LastWith(input, S, k)))

(* C4: every leaf of the tree is the coercion of the value of the row that  *)
(* produced it: a top-level flat value of the last kept flat row with that  *)
(* key, a value inside a collection of the last kept row of that collection *)
(* with that key; never the value of another row.                           *)
C4_EachLeafIsItsOwnRowCoerced ==
    (ContextDone /\ ProperGrid(input)) =>
        LET flat == FlatRows(input)
            grouped == GroupedRows(input)
            flatKeys == FlatKeys(input)
        IN \A p \in 1..Len(tree) :
               LET k == tree[p][1]
                   x == tree[p][2]
                   S == InCollection(input, grouped, k)
               IN IF k \in flatKeys
                  THEN x = Coerced(CellG(input, LastWith(input, flat, k)))
                  ELSE /\ x.t = "object"
                       /\ \A q \in 1..Len(x.v) :
                              /\ x.v[q][1] \in EntryKeys(input, S)
                              /\ x.v[q][2] =
                                     Coerced(CellG(input, LastWith(input, S, x.v[q][1])))

\* A collection leaf parsed from JSON text beside a flat leaf left as it was.
C4_Witness ==
    /\ ContextDone /\ ProperGrid(input)
    /\ \E p, r \in 1..Len(tree) :
           /\ tree[p][1] \notin FlatKeys(input)
           /\ \E q \in 1..Len(tree[p][2].v) :
                  /\ tree[p][2].v[q][2] = Num("42")
                  /\ \E i \in Kept(input) : CellG(input, i) = Str("42")
           /\ tree[r][1] \in FlatKeys(input)
           /\ tree[r][2] = Str("V1")

(* C5: createContextJSON never propagates an error: it returns a value for  *)
(* every input, and the empty object whenever its body fails (null or       *)
(* absent data, a row that is no array, a failing collection name).         *)
C5_NeverThrowsEmptyOnFailure ==
    ContextDone =>
        /\ ~output.threw
        /\ output.value.t = "object"
        /\ FailsInternally(input) => output.value = EmptyObject

\* A grid of proper rows on which the body fails, answered by {}.
C5_Witness ==
    /\ ContextDone
    /\ ProperGrid(input) /\ FailsInternally(input)
    /\ output = [threw |-> FALSE, value |-> EmptyObject]

----------------------------------------------------------------------------
(* Claims about the Epics module                                           *)

RowDataDone ==
    /\ pc = "done" /\ fn = "getRowData"
    /\ input.headers.t = "array" /\ input.row.t = "array"

HeaderName(i) == ToStr(input.headers.v[i])

(* C6 as stated: the header at every position i maps to the row value at    *)
(* position i, or to undefined when the row has no position i, and no other *)
(* key appears.  Stated for headers that are not "__proto__".               *)
C6_Original_EachHeaderMapsToItsPosition ==
    (RowDataDone /\ \A i \in 1..Len(input.headers.v) : HeaderName(i) # "__proto__") =>
        /\ \A i \in 1..Len(input.headers.v) :
               /\ ObjHas(tree, HeaderName(i))
               /\ ObjGet(tree, HeaderName(i)) = At(input.row.v, i - 1)
        /\ KeySet(tree) \subseteq {HeaderName(i) : i \in 1..Len(input.headers.v)}

(* C6 amended: the mapping has one entry per distinct header name other     *)
(* than "__proto__"; a name maps to the row value at the last position      *)
(* where the header has that name, or to undefined when the row has no such *)
(* position; row values beyond the headers never appear.                    *)
C6_EachNameMapsToItsLastPosition ==
    RowDataDone =>
        LET positions == 1..Len(input.headers.v)
            names == {HeaderName(i) : i \in positions} \ {"__proto__"}
        IN /\ KeySet(tree) = names
           /\ Len(tree) = Cardinality(names)
           /\ \A k \in names :
                  LET last == CHOOSE i \in positions :
                                  /\ HeaderName(i) = k
                                  /\ \A j \in positions : HeaderName(j) = k => j <= i
                  IN ObjGet(tree, k) = At(input.row.v, last - 1)

\* Two headers of one name over different row values, and a value past the headers.
C6_Witness ==
    /\ RowDataDone
    /\ Len(input.row.v) > Len(input.headers.v)
    /\ \E i, j \in 1..Len(input.headers.v) :
           /\ i < j
           /\ HeaderName(i) = HeaderName(j)
           /\ HeaderName(i) # "__proto__"
           /\ At(input.row.v, i - 1) # At(input.row.v, j - 1)
           /\ ObjGet(tree, HeaderName(i)) = At(input.row.v, j - 1)

EpicsDone ==
    /\ pc = "done" /\ fn = "createEpicsJSON"
    /\ input.data.t = "object"

(* C7: eventData holds exactly the keys of the row object whose value is    *)
(* not null, undefined or "", each with its original value (0 and false     *)
(* stay), and context is the supplied context tree unchanged.               *)
C7_EventDataIsTheNonEmptyFields ==
    EpicsDone =>
        LET data == input.data.v
            eventData == ObjGet(tree, "eventData").v
            present == {k \in KeySet(data) : ObjGet(data, k) \notin {Null, Undefined, Str("")}}
        IN /\ KeySet(eventData) = present
           /\ Len(eventData) = Cardinality(present)
           /\ \A k \in present : ObjGet(eventData, k) = ObjGet(data, k)
           /\ ObjGet(tree, "context") = input.contextData

\* A row object with a 0, a false and an empty field: the first two are copied.
C7_Witness ==
    /\ EpicsDone
    /\ \E a, b, c \in KeySet(input.data.v) :
           /\ ObjGet(input.data.v, a) = Num("0")
           /\ ObjGet(input.data.v, b) = Bool("false")
           /\ ObjGet(input.data.v, c) \in {Str(""), Null, Undefined}
           /\ KeySet(ObjGet(tree, "eventData").v) = {a, b}
    /\ input.contextData # EmptyObject

(* C8: the top-level fields of the payload are exactly context and          *)
(* eventData when no event is supplied, and those two plus gsheet_id,       *)
(* sheet_name_id, row_id, user_id and modify_time when one is, the first    *)
(* three being the event's spreadsheet id, active sheet name and row.       *)
C8_TopLevelFields ==
    EpicsDone =>
        IF input.e.t \in {"undefined", "null"}
        THEN KeySet(tree) = {"context", "eventData"} /\ Len(tree) = 2
        ELSE /\ KeySet(tree) = {"context", "eventData", "gsheet_id", "sheet_name_id",
                                "row_id", "user_id", "modify_time"}
             /\ Len(tree) = 7
             /\ ObjGet(tree, "gsheet_id") = input.e.v.id
             /\ ObjGet(tree, "sheet_name_id") = input.e.v.sheetName
             /\ ObjGet(tree, "row_id") = input.e.v.row

\* A payload built with an edit event.
C8_Witness ==
    /\ EpicsDone
    /\ input.e.t = "event"
    /\ ObjHas(tree, "modify_time")
    /\ ObjGet(tree, "row_id") = Num("7")

TriggerDone == pc = "done" /\ fn = "isExtractTodoSummariesTrigger"

C10_TrueForExtractTodoSummaries ==
    (TriggerDone /\ input.column = 10 /\ input.value = Str("Extract ToDo Summaries")) =>
        output.value = Bool("true")

----------------------------------------------------------------------------
(* Claims about handleEdit, sendToWebhook and the cached context           *)

\* The current Context tree and the key it is cached under.
CurrentTree == createContextJSON(contextGrid).value

CurrentKey == "contextData_sheet-1_" \o ToString(Len(contextGrid.v))

\* C11: whatever edits came before, the edit last handled by handleEdit had a
\* webhook POST attempted, or sendToWebhook called at all, only if it was on
\* the "Epics" sheet, in column 10, with the value "Groom EPIC"; and it had at
\* most one POST.
C11_WebhookOnlyForGroomEpicInEpicsColumn10 ==
    /\ Len(lastRun.posts) <= 1
    /\ (lastRun.posts # <<>> \/ lastRun.sendCalled) =>
           /\ lastEdit.sheetName = "Epics"
           /\ lastEdit.column = 10
           /\ lastEdit.value = Str("Groom EPIC")

\* A matching Epics edit has been handled and its one POST went out.
C11_Witness ==
    /\ lastEdit.sheetName = "Epics"
    /\ lastEdit.column = 10
    /\ lastEdit.value = Str("Groom EPIC")
    /\ Len(lastRun.posts) = 1
    /\ lastRun.posts[1].payload.v.t = "object"
    /\ ObjHas(lastRun.posts[1].payload.v.v, "context")

\* C12: when sendToWebhook has been called and the request failed, because no
\* webhook URL is configured (nothing was posted) or because the response
\* status is not exactly 200, sendToWebhook threw an Error to its caller.
C12_ThrowsWhenTheRequestFails ==
    (/\ lastRun.sendCalled
     /\ \/ lastRun.posts = <<>>
        \/ lastRun.status # 200) => lastRun.sendThrew

====
